---- MODULE Spec2Model ----
(***************************************************************************)
(* A model of soma_agent's Agent::run (src/src/lib.rs): the bounded step   *)
(* loop, the retry wrapper call_with_retry with its cooperative            *)
(* cancellation, the token budget, and the dispatch of tool calls (single  *)
(* call, concurrent fan-out of 2 or 3 calls, sequential awaits otherwise). *)
(* Providers are nondeterministic: each invocation returns one of a small  *)
(* set of replies.  Cancellation is an action of the environment that may  *)
(* happen between any two steps of the run.                                *)
(***************************************************************************)
EXTENDS Integers, Sequences, FiniteSets, TLC

\* ------------------------------------------------------------------ bounds
MaxSteps == 2
MaxRetries == 2
MaxCalls == 2
MaxBudget == 12
MaxFanout == 4

\* ------------------------------------------------------- program constants
InitialDelayMs == 50
OverridePercent == 85
DefaultThreshold == 200
DefaultToolWeight == 50

\* ------------------------------------------------------------ JSON values
\* serde_json::Value as a tagged record; an object is a sequence of
\* <<key, value>> pairs, an array a sequence of values.
JNull == [t |-> "null", v |-> 0]
JBool(b) == [t |-> "bool", v |-> b]
JNum(n) == [t |-> "num", v |-> n]
JStr(s) == [t |-> "str", v |-> s]
JArr(items) == [t |-> "arr", v |-> items]
JObj(pairs) == [t |-> "obj", v |-> pairs]
EmptyObj == JObj(<<>>)

RECURSIVE Digits(_)
Digits(n) == IF n < 10 THEN 1 ELSE 1 + Digits(n \div 10)

\* Value::get(key): the member of an object, Null when missing or not an object.
Get(value, key) ==
    IF value.t = "obj" /\ \E i \in 1..Len(value.v) : value.v[i][1] = key
    THEN LET i == CHOOSE j \in 1..Len(value.v) : value.v[j][1] = key
         IN value.v[i][2]
    ELSE JNull

HasKey(value, key) ==
    value.t = "obj" /\ \E i \in 1..Len(value.v) : value.v[i][1] = key

\* as_str().unwrap_or("")
AsStrOrEmpty(value) == IF value.t = "str" THEN value.v ELSE ""

estimate_tokens_zero(value) == 0

\* value.to_string().chars().count(): the length of the compact serialization.
RECURSIVE estimate_tokens(_), SerItems(_), SerPairs(_)
estimate_tokens(value) ==
    CASE value.t = "null" -> 4
      [] value.t = "bool" -> IF value.v THEN 4 ELSE 5
      [] value.t = "num" -> Digits(value.v)
      [] value.t = "str" -> Len(value.v) + 2
      [] value.t = "arr" -> 2 + SerItems(value.v)
      [] value.t = "obj" -> 2 + SerPairs(value.v)
SerItems(items) ==
    IF items = <<>> THEN 0
    ELSE estimate_tokens(Head(items))
         + (IF Len(items) > 1 THEN 1 + SerItems(Tail(items)) ELSE 0)
SerPairs(pairs) ==
    IF pairs = <<>> THEN 0
    ELSE Len(Head(pairs)[1]) + 3 + estimate_tokens(Head(pairs)[2])
         + (IF Len(pairs) > 1 THEN 1 + SerPairs(Tail(pairs)) ELSE 0)

\* ----------------------------------------------------------------- replies
Reply(ok, output, latency_ms, cost) ==
    [ok |-> ok, output |-> output, latency_ms |-> latency_ms, cost |-> cost]

ErrorValue(reason) == JObj(<< <<"error", JStr(reason)>> >>)
CancelledReply == Reply(FALSE, ErrorValue("cancelled"), 0, EmptyObj)
StepLimitReply == Reply(FALSE, ErrorValue("step limit exceeded"), 0, EmptyObj)
BudgetReply(latency_ms, cost) ==
    Reply(FALSE, ErrorValue("token budget exceeded"), latency_ms, cost)
UnknownToolReply(name) ==
    Reply(FALSE,
          JObj(<< <<"error", JStr("unknown tool")>>, <<"tool", JStr(name)>> >>),
          0, EmptyObj)
ToolFailedReply(name, reply) ==
    Reply(FALSE,
          JObj(<< <<"detail", reply.output>>,
                  <<"error", JStr("tool invocation failed")>>,
                  <<"tool", JStr(name)>> >>),
          reply.latency_ms, reply.cost)
\* No reply yet (a wrapper that has not returned, a run that has not ended).
NoReply == Reply(FALSE, JNull, 0, JNull)

\* ------------------------------------------------------------------- modes
as_str(m) == IF m = "Direct" THEN "direct" ELSE "reasoned"

decide(pol, input, tool_count) ==
    LET text_len == IF input.t = "str" THEN Len(input.v) ELSE estimate_tokens(input)
        score == text_len + tool_count * pol.tool_weight
    IN IF score > pol.threshold THEN "Reasoned" ELSE "Direct"

ReasoningContext(m) == JObj(<< <<"reasoning", JStr(as_str(m))>> >>)
RetryContextBare(m, n) == JObj(<< <<"retry", JNum(n)>> >>)
RetryContextFromZero(m, n) ==
    JObj(<< <<"reasoning", JStr(as_str(m))>>, <<"retry", JNum(n - 1)>> >>)
RetryContext(m, n) ==
    JObj(<< <<"reasoning", JStr(as_str(m))>>, <<"retry", JNum(n)>> >>)
ToolContext(m, name) ==
    JObj(<< <<"reasoning", JStr(as_str(m))>>, <<"tool", JStr(name)>> >>)
ToolsContext(m, names) ==
    JObj(<< <<"reasoning", JStr(as_str(m))>>,
            <<"tools", JArr([i \in 1..Len(names) |-> JStr(names[i])])>> >>)

\* ------------------------------------------------------------------- state
VARIABLES
    max_steps, max_tokens, max_retries, policy, tools, ask,   \* Agent fields, run's argument
    fanout,             \* the longest tool_calls sequence the primary asks for
    cancel_token,       \* CancellationToken: TRUE once cancel() was called
    pc,                 \* where Agent::run is
    remaining, mode, current, step,                          \* run's locals
    names, inputs,      \* the tool calls being dispatched in this step
    ws,                 \* the call_with_retry futures of this step
    result,             \* the Reply that run returned
    primary_calls,      \* history: invocations of the primary provider
    tool_calls_made,    \* history: invocations of tool providers in this step
    primary_wrapped,    \* history: call_with_retry calls for the primary
    calls_after_cancel, \* history: provider calls started after cancel()
    debited, charges,   \* history: tokens debited, and per reply how often
    first_ok,           \* history: the primary's first ok reply
    reg,                \* history: the last register_tool call and its result
    client,             \* McpProvider.client: "none", "ready" or "failed"
    schemas,            \* McpProvider.schemas, the cache behind the mutex
    mutex,              \* the thread holding the schemas mutex, 0 if free
    next_id,            \* McpClient.id
    sent,               \* history: the RPC requests posted, in order
    threads,            \* the threads calling McpProvider::ask
    started,            \* history: the asks begun on the remote provider
    fetched             \* history: the ops whose schema RPC succeeded

config == <<max_steps, max_tokens, max_retries, policy, tools, ask, fanout>>
locals == <<remaining, mode, current, step, names, inputs, result>>
history == <<primary_calls, tool_calls_made, primary_wrapped, calls_after_cancel,
             debited, charges, first_ok>>
settings == <<max_steps, max_tokens, max_retries, policy, ask, fanout>>
remote == <<client, schemas, mutex, next_id, sent, threads, started, fetched>>
outside == <<reg, remote>>
vars == <<config, cancel_token, pc, locals, ws, history, outside>>

\* ------------------------------------------------------------------ inputs
ToolNames == <<"add", "mul">>
UnknownName == "nope"
DefaultPolicy == [threshold |-> DefaultThreshold, tool_weight |-> DefaultToolWeight]
\* The agents and asks a run starts from: the default policy with an empty
\* ask, and a policy that scores a short string as Reasoned.
Scenarios ==
    { [policy |-> DefaultPolicy,
       ask |-> [op |-> "echo", input |-> EmptyObj, context |-> EmptyObj]],
      [policy |-> [threshold |-> 3, tool_weight |-> DefaultToolWeight],
       ask |-> [op |-> "sum", input |-> JStr("hello"),
                context |-> JObj(<< <<"k", JNum(1)>> >>)]] }
TokenBudgets == {0, 1, 16, 67, 70, 150, 1000}

Usage == JObj(<< <<"tokens", JNum(9)>> >>)
ToolCall(op, input) == JObj(<< <<"input", input>>, <<"op", JStr(op)>> >>)
ToolCallsValue(list) == JObj(<< <<"tool_calls", JArr(list)>> >>)
\* The tool_calls sequences a primary may ask for: n entries naming the
\* registered tools in turn, entry u (if any) naming an unregistered one.
ToolCallLists ==
    { [i \in 1..n |->
          ToolCall(IF i = u THEN UnknownName ELSE ToolNames[((i - 1) % 2) + 1],
                   JNum(i))] :
      n \in 0..fanout, u \in 0..fanout }

\* What one invocation of the primary provider may return for Ask a.
PrimaryReplies(a) ==
    { Reply(TRUE, a.input, 0, EmptyObj),
      Reply(TRUE, JObj(<< <<"done", JBool(TRUE)>> >>), 5, Usage),
      Reply(TRUE, ToolCallsValue(<<ToolCall(ToolNames[1], JNum(1))>>), 5, Usage),
      Reply(FALSE, ErrorValue("fail"), 3, Usage) }
    \cup { Reply(FALSE, ToolCallsValue(l), 0, EmptyObj) : l \in ToolCallLists }

\* What one invocation of a tool provider may return for Ask a.
ToolReplies(a) ==
    { Reply(TRUE, JObj(<< <<"sum", a.input>> >>), 7, Usage),
      Reply(FALSE, ErrorValue("boom"), 7, Usage) }

has_tool(name) == name \in DOMAIN tools

\* ----------------------------------------------------------- retry wrapper
\* asked and last are history: the Ask that op last passed to its provider,
\* and the Reply that op last returned.
NoAsk == [op |-> "", input |-> JNull, context |-> JNull]
NewWrapper ==
    [pc |-> "top", attempt |-> 0, delay |-> InitialDelayMs, calls |-> 0,
     reply |-> NoReply, asked |-> NoAsk, last |-> NoReply]
\* A future that returned: its locals are gone.
Returned(w, reply) ==
    [w EXCEPT !.pc = "ret", !.reply = reply, !.attempt = 0, !.delay = 0]

LoopCondInclusive(attempt) == attempt <= max_retries

\* for attempt in 0..max_retries
LoopCond(attempt) == attempt < max_retries
\* attempt + 1 == max_retries
LastAttempt(attempt) == attempt + 1 = max_retries

TopOfAttemptNoCheck(w) ==
    IF w.attempt >= max_retries THEN [w EXCEPT !.pc = "unreachable"]
    ELSE [w EXCEPT !.pc = "call"]

\* The top of one iteration of the retry loop: leave the loop (unreachable!),
\* return the cancelled reply, or go on to invoke op.
TopOfAttempt(w) ==
    IF ~LoopCond(w.attempt) THEN [w EXCEPT !.pc = "unreachable"]
    ELSE IF cancel_token THEN Returned(w, CancelledReply)
    ELSE [w EXCEPT !.pc = "call"]

AfterOpNoRetry(w, reply) ==
    [w EXCEPT !.pc = "ret", !.reply = reply, !.calls = @ + 1, !.attempt = 0,
              !.delay = 0]

AfterOpMasking(w, reply) ==
    LET w1 == [w EXCEPT !.calls = @ + 1]
    IN IF reply.ok THEN Returned(w1, reply)
       ELSE IF LastAttempt(w.attempt)
            THEN Returned(w1, Reply(FALSE, reply.output, 0, EmptyObj))
       ELSE [w1 EXCEPT !.pc = "backoff"]

\* After op returned reply: return it, or wait in select!.
AfterOp(w, reply) ==
    LET w1 == [w EXCEPT !.calls = @ + 1]
    IN IF reply.ok \/ LastAttempt(w.attempt) THEN Returned(w1, reply)
       ELSE [w1 EXCEPT !.pc = "backoff"]

AfterSelectStillWaiting(w, branch) ==
    IF branch = "cancelled" THEN [w EXCEPT !.pc = "ret", !.reply = CancelledReply]
    ELSE w

\* select! { sleep(delay) => delay *= 2, token.cancelled() => return cancelled }
SelectBranches == {"sleep"} \cup (IF cancel_token THEN {"cancelled"} ELSE {})
AfterSelect(w, branch) ==
    IF branch = "cancelled" THEN Returned(w, CancelledReply)
    ELSE TopOfAttempt([w EXCEPT !.delay = @ * 2, !.attempt = @ + 1])

Concurrent == pc = "fanout" /\ Len(ws) \in {2, 3}

CanPollUnserialized(i) ==
    Concurrent \/ \A j \in 1..(i - 1) : ws[j].pc = "ret"

\* try_join! polls its 2 or 3 futures on the run's task; any other number of
\* futures is awaited one after the other.
CanPoll(i) ==
    /\ \A j \in 1..Len(ws) : ws[j].pc # "call"
    /\ Concurrent \/ \A j \in 1..(i - 1) : ws[j].pc = "ret"

OpAskKeepingContext(i) ==
    IF pc = "primary" THEN current
    ELSE [op |-> names[i], input |-> inputs[i], context |-> current.context]

\* The Ask that future i's op sends, and the replies its provider may give.
OpAsk(i) ==
    IF pc = "primary" THEN current
    ELSE [op |-> names[i], input |-> inputs[i], context |-> EmptyObj]
OpReplies(i) == IF pc = "primary" THEN PrimaryReplies(OpAsk(i)) ELSE ToolReplies(OpAsk(i))

InWrapper == pc \in {"primary", "tool", "fanout"}

SetWrapper(i, next) ==
    \E w \in {next} :
        /\ ws' = [ws EXCEPT ![i] = IF w.pc = "unreachable" THEN ws[i] ELSE w]
        /\ pc' = IF w.pc = "unreachable" THEN "panicked" ELSE pc

call_with_retry_enter(i) ==
    /\ InWrapper /\ ws[i].pc = "top" /\ CanPoll(i)
    /\ SetWrapper(i, TopOfAttempt(ws[i]))
    /\ UNCHANGED <<outside, config, cancel_token, locals, history>>

call_with_retry_op(i) ==
    /\ InWrapper /\ ws[i].pc = "call"
    /\ \E reply \in OpReplies(i) :
        /\ SetWrapper(i, AfterOp([ws[i] EXCEPT !.asked = OpAsk(i), !.last = reply],
                                 reply))
        /\ first_ok' = IF pc = "primary" /\ reply.ok /\ first_ok.n = 0
                       THEN [n |-> primary_calls + 1, reply |-> reply]
                       ELSE first_ok
    /\ primary_calls' = primary_calls + (IF pc = "primary" THEN 1 ELSE 0)
    /\ tool_calls_made' = tool_calls_made + (IF pc = "primary" THEN 0 ELSE 1)
    /\ calls_after_cancel' = calls_after_cancel + (IF cancel_token THEN 1 ELSE 0)
    /\ UNCHANGED <<outside, config, cancel_token, locals, primary_wrapped, debited, charges>>

call_with_retry_select(i) ==
    /\ InWrapper /\ ws[i].pc = "backoff" /\ CanPoll(i)
    /\ \E branch \in SelectBranches : SetWrapper(i, AfterSelect(ws[i], branch))
    /\ UNCHANGED <<outside, config, cancel_token, locals, history>>

\* --------------------------------------------------------------- Agent::run
\* One debit of the budget: kind is "ask" (the initial ask), "output" (the
\* output of reply src of this step: 0 the primary's, i the i-th tool's),
\* "tool_input" (entry src's input) or "next" (input + context of the next
\* Ask, whose input is the output of reply src; src = -1 when it is none's).
Debit(kind, src, amount) == [kind |-> kind, src |-> src, amount |-> amount]

\* return reply
Finish(reply, rem, debits) ==
    [pc |-> "done", result |-> reply, remaining |-> rem, current |-> current,
     step |-> step, names |-> names, inputs |-> inputs, ws |-> ws,
     debits |-> debits]
\* continue with the next step
Continue(next, rem, debits) ==
    [pc |-> "loop", result |-> result, remaining |-> rem, current |-> next,
     step |-> step + 1, names |-> <<>>, inputs |-> <<>>, ws |-> <<>>,
     debits |-> debits]
\* hand the calls to call_with_retry and await them
Dispatch(where, ns, ins, rem, debits) ==
    [pc |-> where, result |-> result, remaining |-> rem, current |-> current,
     step |-> step, names |-> ns, inputs |-> ins,
     ws |-> [i \in 1..Len(ns) |-> NewWrapper], debits |-> debits]

FoldNextUnchecked(input, context, src, rem, debits) ==
    LET next == [op |-> current.op, input |-> input, context |-> context]
        next_tokens == estimate_tokens(next.input) + estimate_tokens(next.context)
    IN Continue(next, rem - next_tokens,
                Append(debits, Debit("next", src, next_tokens)))

\* current = Ask {op, input, context}; debit its tokens; continue
FoldNext(input, context, src, rem, debits) ==
    LET next == [op |-> current.op, input |-> input, context |-> context]
        next_tokens == estimate_tokens(next.input) + estimate_tokens(next.context)
    IN IF next_tokens > rem THEN Finish(BudgetReply(0, EmptyObj), rem, debits)
       ELSE Continue(next, rem - next_tokens,
                     Append(debits, Debit("next", src, next_tokens)))

SingleCallUndebited(tc, rem, debits) ==
    LET name == AsStrOrEmpty(Get(tc, "op"))
        input == Get(tc, "input")
        tool_tokens == estimate_tokens(input)
    IN IF ~has_tool(name) THEN Finish(UnknownToolReply(name), rem, debits)
       ELSE IF tool_tokens > rem THEN Finish(BudgetReply(0, EmptyObj), rem, debits)
       ELSE Dispatch("tool", <<name>>, <<input>>, rem, debits)

\* tool_calls.len() == 1
SingleCall(tc, rem, debits) ==
    LET name == AsStrOrEmpty(Get(tc, "op"))
        input == Get(tc, "input")
        tool_tokens == estimate_tokens(input)
    IN IF ~has_tool(name) THEN Finish(UnknownToolReply(name), rem, debits)
       ELSE IF tool_tokens > rem THEN Finish(BudgetReply(0, EmptyObj), rem, debits)
       ELSE Dispatch("tool", <<name>>, <<input>>, rem - tool_tokens,
                     Append(debits, Debit("tool_input", 1, tool_tokens)))

\* for tc in tool_calls { look the tool up, debit its input, push the future }
RECURSIVE ParallelCalls(_, _, _, _, _)
ParallelCalls(tcs, ns, ins, rem, debits) ==
    IF Len(ns) = Len(tcs) THEN Dispatch("fanout", ns, ins, rem, debits)
    ELSE LET tc == tcs[Len(ns) + 1]
             name == AsStrOrEmpty(Get(tc, "op"))
             input == Get(tc, "input")
             tool_tokens == estimate_tokens(input)
         IN IF ~has_tool(name) THEN Finish(UnknownToolReply(name), rem, debits)
            ELSE IF tool_tokens > rem
                 THEN Finish(BudgetReply(0, EmptyObj), rem, debits)
            ELSE ParallelCalls(tcs, Append(ns, name), Append(ins, input),
                               rem - tool_tokens,
                               Append(debits,
                                      Debit("tool_input", Len(ns) + 1, tool_tokens)))

AfterPrimaryDispatchFirst(reply) ==
    LET reply_tokens == estimate_tokens(reply.output)
        rem == remaining - reply_tokens
        debits == <<Debit("output", 0, reply_tokens)>>
        tool_calls == Get(reply.output, "tool_calls")
    IN IF cancel_token THEN Finish(reply, remaining, <<>>)
       ELSE IF reply_tokens > remaining
            THEN Finish(BudgetReply(reply.latency_ms, reply.cost), remaining, <<>>)
       ELSE IF tool_calls.t = "arr" /\ Len(tool_calls.v) = 1
            THEN SingleCall(tool_calls.v[1], rem, debits)
       ELSE IF tool_calls.t = "arr" /\ Len(tool_calls.v) # 0
            THEN ParallelCalls(tool_calls.v, <<>>, <<>>, rem, debits)
       ELSE IF reply.ok THEN Finish(reply, rem, debits)
       ELSE FoldNext(reply.output, RetryContext(mode, step + 1), 0, rem, debits)

AfterPrimaryOkFirst(reply) ==
    LET reply_tokens == estimate_tokens(reply.output)
        rem == remaining - reply_tokens
        debits == <<Debit("output", 0, reply_tokens)>>
        tool_calls == Get(reply.output, "tool_calls")
    IN IF cancel_token THEN Finish(reply, remaining, <<>>)
       ELSE IF reply.ok THEN Finish(reply, remaining, <<>>)
       ELSE IF reply_tokens > remaining
            THEN Finish(BudgetReply(reply.latency_ms, reply.cost), remaining, <<>>)
       ELSE IF tool_calls.t = "arr" /\ Len(tool_calls.v) = 1
            THEN SingleCall(tool_calls.v[1], rem, debits)
       ELSE IF tool_calls.t = "arr" /\ Len(tool_calls.v) # 0
            THEN ParallelCalls(tool_calls.v, <<>>, <<>>, rem, debits)
       ELSE FoldNext(reply.output, RetryContext(mode, step + 1), 0, rem, debits)

AfterPrimaryDispatchingEmpty(reply) ==
    LET reply_tokens == estimate_tokens(reply.output)
        rem == remaining - reply_tokens
        debits == <<Debit("output", 0, reply_tokens)>>
        tool_calls == Get(reply.output, "tool_calls")
    IN IF cancel_token THEN Finish(reply, remaining, <<>>)
       ELSE IF reply_tokens > remaining
            THEN Finish(BudgetReply(reply.latency_ms, reply.cost), remaining, <<>>)
       ELSE IF reply.ok THEN Finish(reply, rem, debits)
       ELSE IF tool_calls.t = "arr" /\ Len(tool_calls.v) = 1
            THEN SingleCall(tool_calls.v[1], rem, debits)
       ELSE IF tool_calls.t = "arr"
            THEN ParallelCalls(tool_calls.v, <<>>, <<>>, rem, debits)
       ELSE FoldNext(reply.output, RetryContext(mode, step + 1), 0, rem, debits)

\* The step after the primary's call_with_retry returned reply.
AfterPrimary(reply) ==
    LET reply_tokens == estimate_tokens(reply.output)
        rem == remaining - reply_tokens
        debits == <<Debit("output", 0, reply_tokens)>>
        tool_calls == Get(reply.output, "tool_calls")
    IN IF cancel_token THEN Finish(reply, remaining, <<>>)
       ELSE IF reply_tokens > remaining
            THEN Finish(BudgetReply(reply.latency_ms, reply.cost), remaining, <<>>)
       ELSE IF reply.ok THEN Finish(reply, rem, debits)
       ELSE IF tool_calls.t = "arr" /\ Len(tool_calls.v) = 1
            THEN SingleCall(tool_calls.v[1], rem, debits)
       ELSE IF tool_calls.t = "arr" /\ Len(tool_calls.v) # 0
            THEN ParallelCalls(tool_calls.v, <<>>, <<>>, rem, debits)
       ELSE FoldNext(reply.output, RetryContext(mode, step + 1), 0, rem, debits)

AfterToolFoldsFailure(tool_reply) ==
    LET tool_reply_tokens == estimate_tokens(tool_reply.output)
    IN IF cancel_token THEN Finish(tool_reply, remaining, <<>>)
       ELSE IF tool_reply_tokens > remaining
            THEN Finish(BudgetReply(0, EmptyObj), remaining, <<>>)
       ELSE FoldNext(tool_reply.output, ToolContext(mode, names[1]), 1,
                     remaining - tool_reply_tokens,
                     <<Debit("output", 1, tool_reply_tokens)>>)

AfterToolChargedTwice(tool_reply) ==
    LET tool_reply_tokens == estimate_tokens(tool_reply.output)
    IN IF cancel_token THEN Finish(tool_reply, remaining, <<>>)
       ELSE IF ~tool_reply.ok
            THEN Finish(ToolFailedReply(names[1], tool_reply), remaining, <<>>)
       ELSE IF 2 * tool_reply_tokens > remaining
            THEN Finish(BudgetReply(0, EmptyObj), remaining, <<>>)
       ELSE FoldNext(tool_reply.output, ToolContext(mode, names[1]), 1,
                     remaining - 2 * tool_reply_tokens,
                     <<Debit("output", 1, tool_reply_tokens),
                       Debit("output", 1, tool_reply_tokens)>>)

\* The single-call path after the tool's call_with_retry returned tool_reply.
AfterTool(tool_reply) ==
    LET tool_reply_tokens == estimate_tokens(tool_reply.output)
    IN IF cancel_token THEN Finish(tool_reply, remaining, <<>>)
       ELSE IF ~tool_reply.ok
            THEN Finish(ToolFailedReply(names[1], tool_reply), remaining, <<>>)
       ELSE IF tool_reply_tokens > remaining
            THEN Finish(BudgetReply(0, EmptyObj), remaining, <<>>)
       ELSE FoldNext(tool_reply.output, ToolContext(mode, names[1]), 1,
                     remaining - tool_reply_tokens,
                     <<Debit("output", 1, tool_reply_tokens)>>)

RECURSIVE CollectResultsPrepending(_, _, _)
CollectResultsPrepending(outputs, rem, debits) ==
    IF Len(outputs) = Len(ws)
    THEN FoldNext(JArr(outputs), ToolsContext(mode, names), -1, rem, debits)
    ELSE LET i == Len(outputs) + 1
             reply == ws[i].reply
             tool_reply_tokens == estimate_tokens(reply.output)
         IN IF ~reply.ok THEN Finish(ToolFailedReply(names[i], reply), rem, debits)
            ELSE IF tool_reply_tokens > rem
                 THEN Finish(BudgetReply(0, EmptyObj), rem, debits)
            ELSE CollectResultsPrepending(<<reply.output>> \o outputs,
                                          rem - tool_reply_tokens,
                                          Append(debits,
                                                 Debit("output", i, tool_reply_tokens)))

RECURSIVE CollectResultsReversed(_, _, _)
CollectResultsReversed(outputs, rem, debits) ==
    IF Len(outputs) = Len(ws)
    THEN FoldNext(JArr(outputs), ToolsContext(mode, names), -1, rem, debits)
    ELSE LET i == Len(ws) - Len(outputs)
             reply == ws[i].reply
             tool_reply_tokens == estimate_tokens(reply.output)
         IN IF ~reply.ok THEN Finish(ToolFailedReply(names[i], reply), rem, debits)
            ELSE IF tool_reply_tokens > rem
                 THEN Finish(BudgetReply(0, EmptyObj), rem, debits)
            ELSE CollectResultsReversed(<<reply.output>> \o outputs,
                                        rem - tool_reply_tokens,
                                        Append(debits,
                                               Debit("output", i, tool_reply_tokens)))

RECURSIVE CollectResultsKeepingFailures(_, _, _)
CollectResultsKeepingFailures(outputs, rem, debits) ==
    IF Len(outputs) = Len(ws)
    THEN FoldNext(JArr(outputs), ToolsContext(mode, names), -1, rem, debits)
    ELSE LET i == Len(outputs) + 1
             reply == ws[i].reply
             tool_reply_tokens == estimate_tokens(reply.output)
         IN IF tool_reply_tokens > rem
            THEN Finish(BudgetReply(0, EmptyObj), rem, debits)
            ELSE CollectResultsKeepingFailures(Append(outputs, reply.output),
                                               rem - tool_reply_tokens,
                                               Append(debits,
                                                      Debit("output", i, tool_reply_tokens)))

\* for (name, reply) in names.iter().zip(results) { ... }; then the next Ask
RECURSIVE CollectResults(_, _, _)
CollectResults(outputs, rem, debits) ==
    IF Len(outputs) = Len(ws)
    THEN FoldNext(JArr(outputs), ToolsContext(mode, names), -1, rem, debits)
    ELSE LET i == Len(outputs) + 1
             reply == ws[i].reply
             tool_reply_tokens == estimate_tokens(reply.output)
         IN IF ~reply.ok THEN Finish(ToolFailedReply(names[i], reply), rem, debits)
            ELSE IF tool_reply_tokens > rem
                 THEN Finish(BudgetReply(0, EmptyObj), rem, debits)
            ELSE CollectResults(Append(outputs, reply.output),
                                rem - tool_reply_tokens,
                                Append(debits, Debit("output", i, tool_reply_tokens)))

AfterJoinUnchecked == CollectResults(<<>>, remaining, <<>>)

\* The parallel path after every future returned.
AfterJoin ==
    IF cancel_token THEN Finish(CancelledReply, remaining, <<>>)
    ELSE CollectResults(<<>>, remaining, <<>>)

\* history: how often each reply's output was debited, as an output and as
\* the input of the next Ask.
RECURSIVE SumDebits(_)
SumDebits(debits) ==
    IF debits = <<>> THEN 0 ELSE Head(debits).amount + SumDebits(Tail(debits))
ChargeOf(ch, tag) == IF tag \in DOMAIN ch THEN ch[tag] ELSE [output |-> 0, next |-> 0]
RECURSIVE Charged(_, _, _)
Charged(ch, s, debits) ==
    IF debits = <<>> THEN ch
    ELSE LET d == Head(debits)
             tag == <<s, d.src>>
             old == ChargeOf(ch, tag)
             new == IF d.kind = "output" THEN [old EXCEPT !.output = @ + 1]
                    ELSE [old EXCEPT !.next = @ + 1]
         IN IF d.kind \in {"output", "next"} /\ d.src >= 0
            THEN Charged((tag :> new) @@ ch, s, Tail(debits))
            ELSE Charged(ch, s, Tail(debits))

Apply(o) ==
    /\ pc' = o.pc
    /\ result' = o.result
    /\ remaining' = o.remaining
    /\ current' = o.current
    /\ step' = o.step
    /\ names' = o.names
    /\ inputs' = o.inputs
    /\ ws' = o.ws
    /\ debited' = debited + SumDebits(o.debits)
    /\ charges' = Charged(charges, step, o.debits)
    /\ tool_calls_made' = IF o.pc = "loop" THEN 0 ELSE tool_calls_made

PreludeNoOverride ==
    LET ask_tokens == estimate_tokens(ask.input) + estimate_tokens(ask.context)
    IN IF ask_tokens > remaining THEN Finish(BudgetReply(0, EmptyObj), remaining, <<>>)
       ELSE [Finish(NoReply, remaining - ask_tokens,
                    <<Debit("ask", -1, ask_tokens)>>)
             EXCEPT !.pc = IF max_tokens = 0 THEN "panicked" ELSE "loop",
                    !.current = [ask EXCEPT !.context =
                        ReasoningContext(decide(policy, ask.input, 0))]]

PreludeUnchecked ==
    LET ask_tokens == estimate_tokens(ask.input) + estimate_tokens(ask.context)
    IN [Finish(NoReply, remaining - ask_tokens, <<Debit("ask", -1, ask_tokens)>>)
        EXCEPT !.pc = IF max_tokens = 0 THEN "panicked" ELSE "loop",
               !.current = [ask EXCEPT !.context =
                   ReasoningContext(
                       IF max_tokens # 0
                          /\ (ask_tokens * 100) \div max_tokens > OverridePercent
                       THEN "Direct" ELSE decide(policy, ask.input, 0))]]

\* let mut remaining = max_tokens; debit the initial ask; choose the mode.
Prelude ==
    LET ask_tokens == estimate_tokens(ask.input) + estimate_tokens(ask.context)
    IN IF ask_tokens > remaining THEN Finish(BudgetReply(0, EmptyObj), remaining, <<>>)
       ELSE [Finish(NoReply, remaining - ask_tokens,
                    <<Debit("ask", -1, ask_tokens)>>)
             EXCEPT !.pc = IF max_tokens = 0 THEN "panicked" ELSE "loop",
                    !.current = [ask EXCEPT !.context =
                        ReasoningContext(
                            IF max_tokens # 0
                               /\ (ask_tokens * 100) \div max_tokens > OverridePercent
                            THEN "Direct" ELSE decide(policy, ask.input, 0))]]

ModeOf(context) == IF Get(context, "reasoning") = JStr("direct") THEN "Direct" ELSE "Reasoned"

run_prelude ==
    /\ pc = "start"
    /\ \E o \in {Prelude} :
        /\ Apply(o)
        /\ mode' = IF o.pc = "loop" THEN ModeOf(o.current.context) ELSE mode
    /\ UNCHANGED <<outside, config, cancel_token, primary_calls, primary_wrapped,
                   calls_after_cancel, first_ok>>

StepCondInclusive(s) == s <= max_steps

\* for step in 0..max_steps
StepCond(s) == s < max_steps

run_step ==
    /\ pc = "loop"
    /\ IF StepCond(step)
       THEN /\ pc' = "primary"
            /\ ws' = <<NewWrapper>>
            /\ primary_wrapped' = primary_wrapped + 1
            /\ UNCHANGED result
       ELSE /\ pc' = "done"
            /\ result' = StepLimitReply
            /\ UNCHANGED <<ws, primary_wrapped>>
    /\ UNCHANGED <<outside, config, cancel_token, remaining, mode, current, step, names, inputs,
                   primary_calls, tool_calls_made, calls_after_cancel, debited,
                   charges, first_ok>>

AllReturned == \A i \in 1..Len(ws) : ws[i].pc = "ret"

run_after_primary ==
    /\ pc = "primary" /\ AllReturned
    /\ \E o \in {AfterPrimary(ws[1].reply)} : Apply(o)
    /\ UNCHANGED <<outside, config, cancel_token, mode, primary_calls, primary_wrapped,
                   calls_after_cancel, first_ok>>

run_after_tool ==
    /\ pc = "tool" /\ AllReturned
    /\ \E o \in {AfterTool(ws[1].reply)} : Apply(o)
    /\ UNCHANGED <<outside, config, cancel_token, mode, primary_calls, primary_wrapped,
                   calls_after_cancel, first_ok>>

run_after_join ==
    /\ pc = "fanout" /\ AllReturned
    /\ \E o \in {AfterJoin} : Apply(o)
    /\ UNCHANGED <<outside, config, cancel_token, mode, primary_calls, primary_wrapped,
                   calls_after_cancel, first_ok>>

\* ------------------------------------------------------------ environment
\* cancel_token.cancel(), from another task or thread, while the run is on.
cancel ==
    /\ ~cancel_token
    /\ pc \notin {"done", "panicked"}
    /\ cancel_token' = TRUE
    /\ UNCHANGED <<outside, config, pc, locals, ws, primary_calls, tool_calls_made,
                   primary_wrapped, calls_after_cancel, debited, charges, first_ok>>

\* ------------------------------------------------------------ tool registry
\* What the registry holds for a tool: Inline for a provider handed in, the
\* endpoint's URL for a remote provider.
Inline == "inline"
UpA == "http://a"
UpB == "http://b"
Down == "http://down"
Urls == {UpA, UpB, Down}
\* McpProvider::new(url): McpClient::new posts the handshake, which the
\* endpoint answers or not.
Reachable(url) == url # Down

RegNames == {"cfg", "ping"}
FileKeys == {"ping", "add"}
NoTools == [n \in {} |-> Inline]
\* A config file: missing, not a JSON mapping of strings, or a mapping.
ConfigMaps == UNION { [ks -> Urls] : ks \in SUBSET FileKeys }
ConfigFiles ==
    { [text |-> "missing", map |-> NoTools], [text |-> "malformed", map |-> NoTools] }
    \cup { [text |-> "map", map |-> m] : m \in ConfigMaps }
ToolSpecs ==
    { [kind |-> "Provider", url |-> "", file |-> [text |-> "", map |-> NoTools]] }
    \cup { [kind |-> "McpEndpoint", url |-> u, file |-> [text |-> "", map |-> NoTools]] :
           u \in Urls }
    \cup { [kind |-> "McpConfigFile", url |-> "", file |-> f] : f \in ConfigFiles }
NoCall == [name |-> "", spec |-> [kind |-> "", url |-> "", file |-> [text |-> "", map |-> NoTools]],
           before |-> NoTools, result |-> ""]

\* HashMap::insert
Insert(t, k, v) == [x \in DOMAIN t \cup {k} |-> IF x = k THEN v ELSE t[x]]

ConfigKeyIsName(name, tool_name) == name

\* The key an entry of a config file is registered under.
ConfigKey(name, tool_name) == tool_name

\* for (tool_name, url) in map, in the order the HashMap yields its entries
RECURSIVE InsertEach(_, _, _, _)
InsertEach(t, name, map, order) ==
    IF order = <<>> THEN [tools |-> t, result |-> "ok"]
    ELSE LET tool_name == Head(order)
         IN IF Reachable(map[tool_name])
            THEN InsertEach(Insert(t, ConfigKey(name, tool_name), map[tool_name]),
                            name, map, Tail(order))
            ELSE [tools |-> t, result |-> "err"]

\* The orders a HashMap may yield the keys S in.
Orders(S) ==
    { o \in [1..Cardinality(S) -> S] :
        \A i, j \in 1..Cardinality(S) : i # j => o[i] # o[j] }

\* The outcomes of register_tool(name, spec) on registry t.
Register(t, name, spec) ==
    CASE spec.kind = "Provider" ->
           { [tools |-> Insert(t, name, Inline), result |-> "ok"] }
      [] spec.kind = "McpEndpoint" ->
           { IF Reachable(spec.url)
             THEN [tools |-> Insert(t, name, spec.url), result |-> "ok"]
             ELSE [tools |-> t, result |-> "err"] }
      [] spec.kind = "McpConfigFile" ->
           IF spec.file.text # "map" THEN { [tools |-> t, result |-> "err"] }
           ELSE { InsertEach(t, name, spec.file.map, o) :
                  o \in Orders(DOMAIN spec.file.map) }

register_tool ==
    /\ pc = "start"
    /\ \E name \in RegNames, spec \in ToolSpecs :
        \E o \in Register(tools, name, spec) :
            /\ tools' = o.tools
            /\ reg' = [name |-> name, spec |-> spec, before |-> tools,
                       result |-> o.result]
    /\ UNCHANGED <<settings, cancel_token, pc, locals, ws, history, remote>>

\* ---------------------------------------------------------- remote provider
MaxThreads == 2
MaxAsks == 2
FirstId == 1
Threads == 1..MaxThreads
Ops == {"ping", "sum"}
IdleThread == [pc |-> "idle", op |-> "", id |-> 0, invokes |-> 0, reply |-> "none"]
Request(id, method, tool) == [id |-> id, method |-> method, tool |-> tool]
SchemaOf(op) == "schema of " \o op
NoSchemas == [op \in {} |-> ""]

fetch_add_nothing(id) == id

\* AtomicU64::fetch_add(1, SeqCst): the counter's next value; the caller gets
\* the old one.
fetch_add(id) == id + 1

\* McpProvider::new: McpClient::new posts the handshake before anything else.
McpProvider_new ==
    /\ client = "none"
    /\ \E ok \in BOOLEAN : client' = IF ok THEN "ready" ELSE "failed"
    /\ sent' = Append(sent, Request(next_id, "handshake", ""))
    /\ next_id' = fetch_add(next_id)
    /\ UNCHANGED <<config, cancel_token, pc, locals, ws, history, reg, schemas,
                   mutex, threads, started, fetched>>

SetThread(t, next) == threads' = [threads EXCEPT ![t] = next]

\* A thread calls ask(op) on the shared provider.
ask_begin(t) ==
    /\ client = "ready" /\ threads[t].pc = "idle" /\ started < MaxAsks
    /\ \E op \in Ops : SetThread(t, [IdleThread EXCEPT !.pc = "lock", !.op = op])
    /\ started' = started + 1
    /\ UNCHANGED <<config, cancel_token, pc, locals, ws, history, reg, client,
                   schemas, mutex, next_id, sent, fetched>>

CanLockUnguarded(t) == TRUE

\* Mutex::lock returns once no other thread holds the guard.
CanLock(t) == mutex = 0

\* self.schemas.lock().unwrap(), then schemas.contains_key(&ask.op)
ask_lock(t) ==
    /\ threads[t].pc = "lock" /\ CanLock(t)
    /\ mutex' = t
    /\ SetThread(t, [threads[t] EXCEPT !.pc =
           IF threads[t].op \in DOMAIN schemas THEN "unlock" ELSE "schema"])
    /\ UNCHANGED <<config, cancel_token, pc, locals, ws, history, reg, client,
                   schemas, next_id, sent, started, fetched>>

\* McpClient::rpc: self.id.fetch_add(1, SeqCst)
ask_fetch_add(t) ==
    /\ threads[t].pc \in {"schema", "invoke"}
    /\ SetThread(t, [threads[t] EXCEPT !.id = next_id,
           !.pc = IF threads[t].pc = "schema" THEN "schema_send" ELSE "invoke_send"])
    /\ next_id' = fetch_add(next_id)
    /\ UNCHANGED <<config, cancel_token, pc, locals, ws, history, reg, client,
                   schemas, mutex, sent, started, fetched>>

\* The schema request is posted and answered; an Ok answer is inserted.
ask_schema(t) ==
    /\ threads[t].pc = "schema_send"
    /\ sent' = Append(sent, Request(threads[t].id, "schema", threads[t].op))
    /\ \E ok \in BOOLEAN :
        /\ schemas' = IF ok THEN Insert(schemas, threads[t].op, SchemaOf(threads[t].op))
                      ELSE schemas
        /\ fetched' = IF ok THEN fetched \cup {threads[t].op} ELSE fetched
    /\ SetThread(t, [threads[t] EXCEPT !.pc = "unlock", !.id = 0])
    /\ UNCHANGED <<config, cancel_token, pc, locals, ws, history, reg, client,
                   mutex, next_id, started>>

\* The guard is dropped at the end of the block.
ask_unlock(t) ==
    /\ threads[t].pc = "unlock"
    /\ mutex' = 0
    /\ SetThread(t, [threads[t] EXCEPT !.pc = "invoke"])
    /\ UNCHANGED <<config, cancel_token, pc, locals, ws, history, reg, client,
                   schemas, next_id, sent, started, fetched>>

\* The invoke request is posted and answered; ask returns its Reply.
ask_invoke(t) ==
    /\ threads[t].pc = "invoke_send"
    /\ sent' = Append(sent, Request(threads[t].id, "invoke", threads[t].op))
    /\ \E ok \in BOOLEAN :
        SetThread(t, [threads[t] EXCEPT !.pc = "idle", !.id = 0, !.invokes = @ + 1,
                                        !.reply = IF ok THEN "ok" ELSE "err"])
    /\ UNCHANGED <<config, cancel_token, pc, locals, ws, history, reg, client,
                   schemas, mutex, next_id, started, fetched>>

\* ------------------------------------------------------------ specification
\* The state in which run(ask) is entered.
Entered ==
    /\ pc = "start"
    /\ remaining = max_tokens
    /\ mode = "Direct"
    /\ current = ask
    /\ step = 0
    /\ names = <<>>
    /\ inputs = <<>>
    /\ ws = <<>>
    /\ result = NoReply
    /\ primary_calls = 0
    /\ tool_calls_made = 0
    /\ primary_wrapped = 0
    /\ calls_after_cancel = 0
    /\ debited = 0
    /\ charges = <<>>
    /\ first_ok = [n |-> 0, reply |-> NoReply]

\* Nothing was registered through register_tool yet, no remote provider built.
Unregistered == reg = NoCall
Unconnected ==
    /\ client = "none"
    /\ schemas = NoSchemas
    /\ mutex = 0
    /\ next_id = FirstId
    /\ sent = <<>>
    /\ threads = [t \in Threads |-> IdleThread]
    /\ started = 0
    /\ fetched = {}

Start ==
    /\ tools = [n \in {ToolNames[i] : i \in 1..Len(ToolNames)} |-> Inline]
    /\ cancel_token \in BOOLEAN
    /\ Entered
    /\ Unregistered
    /\ Unconnected

Init ==
    /\ max_steps \in 0..MaxSteps
    /\ max_retries \in 0..MaxRetries
    /\ max_tokens \in TokenBudgets
    /\ \E s \in Scenarios : policy = s.policy /\ ask = s.ask
    /\ fanout = MaxCalls
    /\ Start

Wrapper == \E i \in 1..Len(ws) :
    call_with_retry_enter(i) \/ call_with_retry_op(i) \/ call_with_retry_select(i)

Run ==
    \/ run_prelude
    \/ run_step
    \/ Wrapper
    \/ run_after_primary
    \/ run_after_tool
    \/ run_after_join

Next == Run \/ cancel

Spec == Init /\ [][Next]_vars

\* The choice of the mode alone: run's prelude over every budget up to
\* MaxBudget, asks of several sizes and policies of several thresholds.
ModeInputs == {JStr(""), JStr("ab"), JStr("hello"), JNum(7), EmptyObj}
ModeContexts == {EmptyObj, JObj(<< <<"k", JNum(1)>> >>), JNum(7)}
ModeThresholds == {0, 1, 6, DefaultThreshold}
ModeInit ==
    /\ max_steps = 1
    /\ max_retries = 1
    /\ max_tokens \in 0..MaxBudget
    /\ policy \in [threshold : ModeThresholds, tool_weight : {DefaultToolWeight}]
    /\ ask \in [op : {"inspect"}, input : ModeInputs, context : ModeContexts]
    /\ fanout = 0
    /\ Start
ModeNext == run_prelude
ModeSpec == ModeInit /\ [][ModeNext]_vars

\* One step of an agent whose primary asks for up to MaxFanout tool calls at
\* once, with a budget that never runs out.
WideInit ==
    /\ max_steps = 1
    /\ max_retries \in 1..2
    /\ max_tokens = 1000
    /\ policy = DefaultPolicy
    /\ ask = [op |-> "echo", input |-> EmptyObj, context |-> EmptyObj]
    /\ fanout = MaxFanout
    /\ Start
WideSpec == WideInit /\ [][Next]_vars

\* Every provider call returns and every backoff timer fires: the run's task
\* keeps being scheduled.
FairSpec == Spec /\ WF_vars(Run)

\* A new agent, before any run: tools are registered one call after another.
NewAgent ==
    /\ max_steps = 1
    /\ max_tokens = 1000
    /\ max_retries = 1
    /\ policy = DefaultPolicy
    /\ ask = [op |-> "echo", input |-> EmptyObj, context |-> EmptyObj]
    /\ fanout = 0
    /\ tools = NoTools
    /\ cancel_token = FALSE
    /\ Entered
    /\ Unregistered
    /\ Unconnected
RegistryNext == register_tool
RegistrySpec == NewAgent /\ [][RegistryNext]_vars

\* One remote provider, built and then shared by MaxThreads threads that
\* make up to MaxAsks asks between them.
McpProvider_ask == \E t \in Threads :
    \/ ask_begin(t)
    \/ ask_lock(t)
    \/ ask_fetch_add(t)
    \/ ask_schema(t)
    \/ ask_unlock(t)
    \/ ask_invoke(t)
McpNext == McpProvider_new \/ McpProvider_ask
McpSpec == NewAgent /\ [][McpNext]_vars

\* ------------------------------------------------------------------ claims
AskTokens == estimate_tokens(ask.input) + estimate_tokens(ask.context)
Returning == pc = "primary" /\ AllReturned
\* A future that returned the cancelled reply after an invocation: it was
\* cancelled in, or right after, a backoff wait.
CancelledWaiting(w) == w.pc = "ret" /\ w.reply = CancelledReply /\ w.calls >= 1

\* C1: the remaining budget starts at max_tokens, never increases and never
\* goes below zero; the tokens debited so far never exceed max_tokens.
C1_BudgetNeverOverdrawn ==
    /\ [](/\ remaining >= 0
          /\ debited >= 0
          /\ remaining + debited = max_tokens
          /\ (pc = "start" => remaining = max_tokens))
    /\ [][remaining' <= remaining]_vars
C1_Witness ==
    /\ pc = "done" /\ step >= 1 /\ debited > AskTokens
    /\ result.output = ErrorValue("token budget exceeded")
    /\ remaining < max_tokens

\* C2: with max_retries >= 1, every run whose provider calls return and whose
\* backoff timers fire eventually returns a Reply.
C2_RunReturns == (max_retries >= 1) => <>(pc = "done")
C2_Witness ==
    /\ pc = "done" /\ max_retries >= 2 /\ max_steps >= 2
    /\ result = StepLimitReply
    /\ primary_calls = max_steps * max_retries

\* C3: at most one provider call, primary or tool, starts after cancel().
C3_OneCallAfterCancel == calls_after_cancel <= 1
C3_Witness == pc = "done" /\ calls_after_cancel = 1 /\ names # <<>>

\* C4 as claimed: the primary's ask is called at most max_steps times.
C4_Original == primary_calls <= max_steps
\* C4 as amended: call_with_retry is entered for the primary at most
\* max_steps times, and the primary's ask is called at most
\* max_steps * max_retries times.
C4_PrimaryCallsBounded ==
    /\ primary_wrapped <= max_steps
    /\ primary_calls <= max_steps * max_retries
C4_Witness ==
    /\ pc = "done" /\ max_steps >= 1 /\ max_retries >= 2
    /\ primary_wrapped = max_steps
    /\ primary_calls = max_steps * max_retries

\* C5: one call of call_with_retry invokes its op at most max_retries times.
C5_RetriesBounded == \A i \in 1..Len(ws) : ws[i].calls <= max_retries
C5_Witness ==
    \E i \in 1..Len(ws) :
        ws[i].pc = "ret" /\ ws[i].calls = max_retries /\ max_retries >= 2

\* C6: when the primary's reply is ok, cancellation is not signaled and the
\* output fits the budget, run returns exactly that reply and invokes no
\* provider afterwards; an echoing primary yields the ask's input after one
\* invocation.
C6_OkReplyEndsRun ==
    [][/\ (Returning /\ ws[1].reply.ok /\ ~cancel_token /\ ~cancel_token'
              /\ estimate_tokens(ws[1].reply.output) <= remaining)
          => /\ pc' = "done"
             /\ result' = ws[1].reply
             /\ primary_calls' = primary_calls
             /\ tool_calls_made' = tool_calls_made
             /\ (step = 0 /\ primary_calls = 1 /\ ws[1].reply.output = ask.input)
                    => result'.output = ask.input
       /\ pc = "done"
          => pc' = "done" /\ primary_calls' = primary_calls
                /\ tool_calls_made' = tool_calls_made]_vars
C6_Witness ==
    /\ pc = "done" /\ ~cancel_token /\ result.ok
    /\ result.output = ask.input /\ primary_calls = 1 /\ tool_calls_made = 0

\* C7 as claimed: every reply with ok = false that run returns has one of the
\* five failure shapes.
IsFailureShape(v) ==
    \/ v \in {ErrorValue("token budget exceeded"), ErrorValue("step limit exceeded"),
              ErrorValue("cancelled")}
    \/ /\ v.t = "obj" /\ Len(v.v) = 2
       /\ Get(v, "error") = JStr("unknown tool") /\ Get(v, "tool").t = "str"
    \/ /\ v.t = "obj" /\ Len(v.v) = 3
       /\ Get(v, "error") = JStr("tool invocation failed")
       /\ Get(v, "tool").t = "str" /\ HasKey(v, "detail")
C7_FiveShapes == (pc = "done" /\ ~result.ok) => IsFailureShape(result.output)

\* C8 as claimed: the token estimate of a reply's output is debited at most
\* once during the run.
C8_Original ==
    \A tag \in DOMAIN charges : charges[tag].output + charges[tag].next <= 1
\* C8 as amended: it is debited at most once as an output, and at most once
\* more as the input of the next Ask the output is folded into.
C8_ChargedOncePerRole ==
    \A tag \in DOMAIN charges :
        /\ charges[tag].output <= 1
        /\ charges[tag].next <= 1
        /\ charges[tag].next = 1 => charges[tag].output = 1
C8_Witness ==
    \E tag \in DOMAIN charges :
        tag[2] = 1 /\ charges[tag].output = 1 /\ charges[tag].next = 1

\* C9 as claimed: a primary that first succeeds on its k-th invocation,
\* k <= max_retries, without cancellation: run returns that reply after
\* exactly k invocations, in the first step.
C9_Original ==
    (pc = "done" /\ ~cancel_token /\ first_ok.n \in 1..max_retries)
        => result = first_ok.reply /\ primary_calls = first_ok.n /\ step = 0
\* C9 as amended: the same, provided the reply's output fits the budget left
\* after the initial ask.
C9_RetriesUntilSuccess ==
    (/\ pc = "done" /\ ~cancel_token /\ first_ok.n \in 1..max_retries
     /\ estimate_tokens(first_ok.reply.output) <= max_tokens - AskTokens)
        => result = first_ok.reply /\ primary_calls = first_ok.n /\ step = 0
C9_Witness ==
    /\ pc = "done" /\ ~cancel_token /\ max_retries >= 2
    /\ first_ok.n = max_retries /\ result = first_ok.reply
    /\ result.output = JObj(<< <<"done", JBool(TRUE)>> >>)

\* C10: a wrapper in a backoff wait with cancellation signaled invokes its
\* provider no more and returns the cancelled reply, which run returns; if
\* that was the primary's first backoff, one invocation was made in all.
C10_CancelDuringBackoff ==
    /\ [][\A i \in 1..Len(ws) :
            (ws[i].pc = "backoff" /\ cancel_token)
                => /\ Len(ws') = Len(ws)
                   /\ ws'[i].pc \in {"backoff", "ret"}
                   /\ ws'[i].calls = ws[i].calls
                   /\ ws'[i].pc = "ret" => ws'[i].reply = CancelledReply]_vars
    /\ [](\A i \in 1..Len(ws) :
            (pc = "done" /\ CancelledWaiting(ws[i]))
                => /\ result = CancelledReply
                   /\ (step = 0 /\ names = <<>> /\ ws[i].calls = 1)
                          => primary_calls = 1 /\ tool_calls_made = 0)
C10_Witness ==
    /\ pc = "done" /\ result = CancelledReply
    /\ step = 0 /\ names = <<>> /\ Len(ws) = 1
    /\ CancelledWaiting(ws[1]) /\ primary_calls = 1

\* A step of the run itself, with cancellation not signaled.
Uncancelled == ~cancel_token /\ ~cancel_token'

\* C11: a primary reply whose output exceeds the remaining budget, without
\* cancellation, makes run return "token budget exceeded" with the reply's
\* latency_ms and cost and without debiting, whether the reply is ok or not.
C11_ReplyOverBudget ==
    [][(Returning /\ Uncancelled
           /\ estimate_tokens(ws[1].reply.output) > remaining)
          => /\ pc' = "done"
             /\ result' = Reply(FALSE, ErrorValue("token budget exceeded"),
                                ws[1].reply.latency_ms, ws[1].reply.cost)
             /\ remaining' = remaining
             /\ debited' = debited]_vars
C11_Witness ==
    /\ pc = "done" /\ ~cancel_token /\ Len(ws) = 1 /\ names = <<>>
    /\ ws[1].reply.ok /\ ws[1].reply.latency_ms = 5
    /\ result = Reply(FALSE, ErrorValue("token budget exceeded"), 5, Usage)

\* C12 as claimed: with the initial ask within the budget, the mode is Direct
\* whenever initial * 100 > 85 * max_tokens, and policy.decide(input, 0)
\* otherwise.
C12_Original ==
    pc = "loop"
        => mode = IF AskTokens * 100 > OverridePercent * max_tokens THEN "Direct"
                  ELSE decide(policy, ask.input, 0)
\* C12 as amended: the mode is Direct whenever the integer quotient
\* initial * 100 / max_tokens exceeds 85, that is whenever
\* initial * 100 >= 86 * max_tokens, and policy.decide(input, 0) otherwise;
\* the first Ask's context is {reasoning: mode}.
C12_ModeChosen ==
    pc = "loop"
        => /\ mode = IF AskTokens * 100 >= (OverridePercent + 1) * max_tokens
                     THEN "Direct" ELSE decide(policy, ask.input, 0)
           /\ current = [ask EXCEPT !.context = ReasoningContext(mode)]
C12_Witness ==
    /\ pc = "loop" /\ mode = "Direct"
    /\ decide(policy, ask.input, 0) = "Reasoned"
    /\ AskTokens * 100 >= (OverridePercent + 1) * max_tokens

\* The mode that lines 249-253 choose from the agent and the initial ask.
ChosenMode ==
    IF (AskTokens * 100) \div max_tokens > OverridePercent THEN "Direct"
    ELSE decide(policy, ask.input, 0)

\* C13: every Ask passed to the primary provider carries, in its context,
\* reasoning = the mode chosen before step 0, and the mode never changes
\* once chosen.
C13_ModeFixed ==
    /\ []((pc = "primary" /\ ws[1].calls >= 1)
            => /\ Get(ws[1].asked.context, "reasoning") = JStr(as_str(ChosenMode))
               /\ mode = ChosenMode
               /\ ws[1].asked.op = ask.op)
    /\ [][pc # "start" => mode' = mode]_vars
C13_Witness ==
    /\ pc = "primary" /\ ws[1].calls >= 1 /\ step >= 1 /\ mode = "Reasoned"
    /\ Get(ws[1].asked.context, "tools") = JArr(<<JStr("add"), JStr("mul")>>)
    /\ Get(ws[1].asked.context, "reasoning") = JStr("reasoned")

\* C14: when the step loop runs out (the initial ask fitted and no step
\* returned), run returns the step-limit reply after exactly max_steps wrapped
\* primary calls; with max_steps = 0 no provider was invoked at all.  Only
\* then is the step-limit reply returned.
C14_StepLimit ==
    /\ (pc = "done" /\ step = max_steps /\ AskTokens <= max_tokens)
          => /\ result = StepLimitReply
             /\ primary_wrapped = max_steps
             /\ max_steps = 0
                    => primary_calls = 0 /\ calls_after_cancel = 0 /\ ws = <<>>
    /\ (pc = "done" /\ result = StepLimitReply)
          => step = max_steps /\ AskTokens <= max_tokens
C14_Witness ==
    /\ pc = "done" /\ ~cancel_token /\ result = StepLimitReply
    /\ max_steps = 2 /\ step = 2 /\ max_retries = 1
    /\ primary_wrapped = 2 /\ primary_calls = 2

\* The tool_calls sequence of the primary's reply (empty if it has none) and
\* the names its entries give.
ToolCallsOf(reply) ==
    LET tool_calls == Get(reply.output, "tool_calls")
    IN IF tool_calls.t = "arr" THEN tool_calls.v ELSE <<>>
OpOf(tc) == AsStrOrEmpty(Get(tc, "op"))
\* The run is about to dispatch the tool calls of the primary's reply: the
\* reply is not ok, fits the budget, and cancellation is not signaled.
Dispatching ==
    /\ Returning /\ Uncancelled /\ ~ws[1].reply.ok
    /\ estimate_tokens(ws[1].reply.output) <= remaining
    /\ ToolCallsOf(ws[1].reply) # <<>>

\* C15 as claimed: if any entry of the reply's tool_calls names an
\* unregistered tool, run returns "unknown tool" with such a name, and no tool
\* provider is invoked in that step.
C15_UnknownTool ==
    [][LET tcs == ToolCallsOf(ws[1].reply)
           unknown == {k \in 1..Len(tcs) : ~has_tool(OpOf(tcs[k]))}
       IN (Dispatching /\ unknown # {})
             => /\ pc' = "done"
                /\ \E k \in unknown : result' = UnknownToolReply(OpOf(tcs[k]))
                /\ tool_calls_made' = tool_calls_made]_vars

\* C16: in the single-call path a tool reply that is not ok, without
\* cancellation, ends the run with "tool invocation failed" naming the tool,
\* with the tool reply's output as detail and its latency_ms and cost; nothing
\* is folded into a next Ask and nothing is debited.
C16_ToolFailed ==
    [][(pc = "tool" /\ AllReturned /\ Uncancelled /\ ~ws[1].reply.ok)
          => /\ pc' = "done"
             /\ result' = Reply(FALSE,
                                JObj(<< <<"detail", ws[1].reply.output>>,
                                        <<"error", JStr("tool invocation failed")>>,
                                        <<"tool", JStr(names[1])>> >>),
                                ws[1].reply.latency_ms, ws[1].reply.cost)
             /\ current' = current /\ step' = step
             /\ remaining' = remaining
             /\ primary_calls' = primary_calls]_vars
C16_Witness ==
    /\ pc = "done" /\ ~cancel_token /\ Len(names) = 1 /\ ws[1].calls = max_retries
    /\ Get(result.output, "error") = JStr("tool invocation failed")
    /\ Get(result.output, "tool") = JStr(names[1])
    /\ Get(result.output, "detail") = ErrorValue("boom")
    /\ result.latency_ms = 7 /\ result.cost = Usage

\* The fan-out's futures all returned and run goes on, cancellation not
\* signaled.
Joined == pc = "fanout" /\ AllReturned /\ Uncancelled
Failing == {i \in 1..Len(ws) : ~ws[i].reply.ok}
Earliest(set) == CHOOSE i \in set : \A j \in set : i <= j
\* The token estimates of the outputs of the first k replies of the fan-out.
RECURSIVE OutputTokens(_)
OutputTokens(k) ==
    IF k = 0 THEN 0 ELSE OutputTokens(k - 1) + estimate_tokens(ws[k].reply.output)

\* C17 as claimed: after a fan-out with a failed reply, without cancellation,
\* run returns "tool invocation failed" for the failing entry of smallest
\* index, with that entry's output as detail.
C17_Original ==
    [][(Joined /\ Failing # {})
          => /\ pc' = "done"
             /\ result' = ToolFailedReply(names[Earliest(Failing)],
                                          ws[Earliest(Failing)].reply)]_vars
\* C17 as amended: the same, provided the outputs of the entries before it
\* fit the remaining budget; otherwise run returns "token budget exceeded".
C17_EarliestFailure ==
    [][(Joined /\ Failing # {})
          => /\ pc' = "done"
             /\ result' = IF OutputTokens(Earliest(Failing) - 1) <= remaining
                          THEN ToolFailedReply(names[Earliest(Failing)],
                                               ws[Earliest(Failing)].reply)
                          ELSE BudgetReply(0, EmptyObj)]_vars
C17_Witness ==
    /\ pc = "done" /\ ~cancel_token /\ Len(names) = 2 /\ max_retries = 2
    /\ ws[1].reply.ok /\ ~ws[2].reply.ok /\ ws[1].calls = 2 /\ ws[2].calls = 2
    /\ result = ToolFailedReply(names[2], ws[2].reply)

\* C18 as claimed: in a fan-out of N >= 2 calls, a call that has not started
\* does not wait for the retry wrapper of an earlier call: while an earlier
\* call is in its backoff wait (and no provider call is running), the later
\* call can start.
C18_FanoutConcurrent ==
    \A i \in 1..Len(ws) : \A j \in 1..Len(ws) :
        (/\ pc = "fanout" /\ Len(ws) >= 2 /\ i < j
         /\ ws[i].pc = "backoff" /\ ws[j].pc = "top"
         /\ \A k \in 1..Len(ws) : ws[k].pc # "call")
            => ENABLED call_with_retry_enter(j)

\* The Ask that follows a fan-out whose replies are all ok.
AfterFanoutAsk ==
    [op |-> ask.op,
     input |-> JArr([i \in 1..Len(ws) |-> ws[i].reply.output]),
     context |-> JObj(<< <<"reasoning", JStr(as_str(mode))>>,
                         <<"tools", JArr([i \in 1..Len(names) |-> JStr(names[i])])>> >>)]
AfterFanoutTokens ==
    OutputTokens(Len(ws)) + estimate_tokens(AfterFanoutAsk.input)
        + estimate_tokens(AfterFanoutAsk.context)

\* C19: the calls of a fan-out are the entries of tool_calls in their order,
\* each invoked with its own input; when all replies are ok and the budget
\* suffices, without cancellation, the next Ask has the outputs in that order
\* as input and {reasoning: mode, tools: names in that order} as context, and
\* it is the Ask the primary is invoked with in the next step.
C19_FanoutOrder ==
    /\ [][/\ (Dispatching /\ pc' = "fanout")
             => LET tcs == ToolCallsOf(ws[1].reply)
                IN /\ names' = [k \in 1..Len(tcs) |-> OpOf(tcs[k])]
                   /\ inputs' = [k \in 1..Len(tcs) |-> Get(tcs[k], "input")]
                   /\ Len(ws') = Len(tcs)
          /\ (Joined /\ Failing = {} /\ AfterFanoutTokens <= remaining)
             => /\ pc' = "loop"
                /\ current' = AfterFanoutAsk
                /\ step' = step + 1
                /\ remaining' = remaining - AfterFanoutTokens]_vars
    /\ [](/\ pc = "fanout"
             => \A i \in 1..Len(ws) :
                   ws[i].calls >= 1
                      => ws[i].asked = [op |-> names[i], input |-> inputs[i],
                                        context |-> EmptyObj]
          /\ (pc = "primary" /\ ws[1].calls >= 1) => ws[1].asked = current)
C19_Witness ==
    /\ pc = "primary" /\ ws[1].calls >= 1 /\ step >= 1 /\ ~cancel_token
    /\ ws[1].asked.input = JArr(<<JObj(<< <<"sum", JNum(1)>> >>),
                                  JObj(<< <<"sum", JNum(2)>> >>)>>)
    /\ ws[1].asked.context =
           JObj(<< <<"reasoning", JStr("direct")>>,
                   <<"tools", JArr(<<JStr("add"), JStr("mul")>>)>> >>)

\* The Ask that follows a single tool call whose reply is ok.
AfterToolAsk ==
    [op |-> ask.op,
     input |-> ws[1].reply.output,
     context |-> JObj(<< <<"reasoning", JStr(as_str(mode))>>,
                         <<"tool", JStr(names[1])>> >>)]
AfterToolTokens ==
    estimate_tokens(ws[1].reply.output) + estimate_tokens(AfterToolAsk.input)
        + estimate_tokens(AfterToolAsk.context)

\* C20: a single tool call names a registered tool, which is invoked with
\* Ask{op: name, input: the entry's input, context: {}}; when its reply is ok
\* and the budget suffices, without cancellation, the next Ask has the
\* original op, the tool's output as input and {reasoning: mode, tool: name}
\* as context, and the run goes on with the next step.
C20_SingleCall ==
    /\ [][/\ (Dispatching /\ pc' = "tool")
             => LET tcs == ToolCallsOf(ws[1].reply)
                IN /\ Len(tcs) = 1
                   /\ names' = <<OpOf(tcs[1])>>
                   /\ inputs' = <<Get(tcs[1], "input")>>
                   /\ Len(ws') = 1
          /\ (pc = "tool" /\ AllReturned /\ Uncancelled /\ ws[1].reply.ok
                 /\ AfterToolTokens <= remaining)
             => /\ pc' = "loop"
                /\ current' = AfterToolAsk
                /\ step' = step + 1
                /\ remaining' = remaining - AfterToolTokens
                /\ primary_calls' = primary_calls]_vars
    /\ [](/\ pc = "tool"
             => /\ has_tool(names[1])
                /\ ws[1].calls >= 1
                      => ws[1].asked = [op |-> names[1], input |-> inputs[1],
                                        context |-> EmptyObj]
          /\ (pc = "primary" /\ ws[1].calls >= 1 /\ HasKey(current.context, "tool"))
             => ws[1].asked = current /\ current.op = ask.op)
C20_Witness ==
    /\ pc = "primary" /\ ws[1].calls >= 1 /\ step >= 1 /\ ~cancel_token
    /\ ws[1].asked.op = ask.op
    /\ ws[1].asked.input = JObj(<< <<"sum", JNum(1)>> >>)
    /\ ws[1].asked.context =
           JObj(<< <<"reasoning", JStr("direct")>>, <<"tool", JStr("add")>> >>)

\* ------------------------------------------------- claims on the registry
RegisteredFile == reg.spec.kind = "McpConfigFile" /\ reg.spec.file.text = "map"
FileMap == reg.spec.file.map

\* C21: when register_tool returns an error the registry is exactly what it
\* was before the call, also when a config file lists several endpoints and
\* only a later one fails.
C21_RegistryUntouchedOnError == reg.result = "err" => tools = reg.before

\* C22: after register_tool(name, config file) succeeded, every key of the
\* file is registered and bound to the remote provider of its URL, and name
\* itself is registered (and bound) as it was before unless it is a key.
C22_FileKeysRegistered ==
    (reg.result = "ok" /\ RegisteredFile) =>
        /\ \A k \in DOMAIN FileMap : has_tool(k) /\ tools[k] = FileMap[k]
        /\ reg.name \notin DOMAIN FileMap =>
               /\ has_tool(reg.name) <=> reg.name \in DOMAIN reg.before
               /\ has_tool(reg.name) => tools[reg.name] = reg.before[reg.name]
C22_Witness ==
    /\ reg.result = "ok" /\ RegisteredFile
    /\ Cardinality(DOMAIN FileMap) = 2
    /\ reg.name \notin DOMAIN FileMap
    /\ ~has_tool(reg.name)
    /\ \E k \in DOMAIN FileMap : k \in DOMAIN reg.before /\ reg.before[k] # tools[k]

\* ------------------------------------------ claims on the remote provider
SchemaRpcs(log, op) ==
    Cardinality({ i \in 1..Len(log) : log[i].method = "schema" /\ log[i].tool = op })
InvokeRpcs(log) == Cardinality({ i \in 1..Len(log) : log[i].method = "invoke" })
\* Thread t returns from ask in this step.
AskReturns(t) == threads[t].pc # "idle" /\ threads'[t].pc = "idle"

\* C23: once a schema RPC for an op succeeded no further schema RPC for that
\* op is posted, whatever the interleaving of the asks; the cache holds
\* exactly the ops whose fetch succeeded, so a failed fetch leaves it as it
\* was; an ask whose fetch failed goes on to invoke; every ask posts exactly
\* one invoke RPC before it returns.
C23_SchemaFetchedOnce ==
    [][ /\ \A op \in fetched : SchemaRpcs(sent', op) = SchemaRpcs(sent, op)
        /\ DOMAIN schemas' = fetched'
        /\ fetched' = fetched => schemas' = schemas
        /\ \A t \in Threads :
            /\ (threads[t].pc = "schema_send" /\ threads'[t] # threads[t]) =>
                   threads'[t].pc = "unlock" /\ threads'[t].invokes = 0
            /\ AskReturns(t) =>
                   /\ threads[t].invokes = 0 /\ threads'[t].invokes = 1
                   /\ InvokeRpcs(sent') = InvokeRpcs(sent) + 1
                   /\ sent'[Len(sent')].tool = threads[t].op
            /\ ~AskReturns(t) => threads'[t].invokes = threads[t].invokes
                                 \/ threads'[t].pc = "lock"
      ]_vars
\* Two asks for the same op overlapped: one fetched the schema while the
\* other waited for the mutex, and the second then posted no schema RPC; and
\* an ask whose fetch had failed was answered.
C23_Witness ==
    /\ \E op \in Ops :
        /\ threads[1].op = op /\ threads[2].op = op
        /\ threads[1].pc = "idle" /\ threads[2].pc = "idle"
        /\ threads[1].invokes = 1 /\ threads[2].invokes = 1
        /\ SchemaRpcs(sent, op) = 1 /\ op \in fetched
        /\ sent[3].method = "invoke" /\ sent[4].method = "invoke"

\* ---------------------------------------------- further claims on the run
\* C24: the primary never observes a partial fan-out: while the N calls are
\* out the primary is not invoked; the run goes on to a next step only when
\* all N replies are ok, and then with an input of exactly those N outputs;
\* when a reply is not ok the run returns, the primary not invoked again; and
\* an Ask that carries the names of N tools carries N outputs.
C24_NoPartialResult ==
    /\ [][pc = "fanout"
             => /\ primary_calls' = primary_calls
                /\ pc' = "loop"
                      => /\ AllReturned /\ Failing = {}
                         /\ current'.input =
                                JArr([i \in 1..Len(names) |-> ws[i].reply.output])
                /\ (AllReturned /\ Failing # {} /\ pc' # pc)
                      => pc' = "done" /\ current' = current]_vars
    /\ []((pc \in {"loop", "primary"} /\ HasKey(current.context, "tools"))
             => /\ current.input.t = "arr"
                /\ Len(current.input.v) = Len(Get(current.context, "tools").v)
                /\ (pc = "primary" /\ ws[1].calls >= 1) => ws[1].asked = current)
C24_Witness ==
    /\ pc = "done" /\ ~cancel_token /\ Len(ws) = 2 /\ step = 0
    /\ Failing = {1} /\ ws[2].reply.ok /\ ws[2].calls = 1
    /\ primary_calls = 1
    /\ current.input = ask.input

\* Future i ran op in this step.
OpRan(i) ==
    /\ InWrapper /\ i \in 1..Len(ws) /\ ws[i].pc = "call"
    /\ pc' = pc /\ ws'[i] # ws[i]

\* C25: a wrapper whose attempts all failed, cancellation never signaled,
\* returns the reply of its last attempt as it is (ok, output, latency_ms and
\* cost); the last attempt is followed by no backoff wait; a reply that is
\* returned is the reply of the attempt that was just made, never an earlier
\* one's.
C25_LastReplyUnchanged ==
    /\ [][\A i \in 1..Len(ws) :
            /\ (OpRan(i) /\ ws[i].attempt + 1 = max_retries)
                  => /\ ws'[i].pc = "ret"
                     /\ ws'[i].reply = ws'[i].last
                     /\ ws'[i].calls = max_retries
            /\ (OpRan(i) /\ ws'[i].pc = "ret") => ws'[i].reply = ws'[i].last
            /\ (InWrapper /\ pc' = pc /\ ws[i].pc = "backoff" /\ ws'[i].pc = "ret")
                  => cancel_token /\ ws'[i].reply = CancelledReply]_vars
    /\ [](\A i \in 1..Len(ws) :
            (InWrapper /\ ws[i].pc = "ret" /\ ~cancel_token)
               => /\ ws[i].reply = ws[i].last
                  /\ ~ws[i].reply.ok => ws[i].calls = max_retries)
C25_Witness ==
    /\ pc = "primary" /\ ~cancel_token /\ max_retries = 2
    /\ ws[1].pc = "ret" /\ ws[1].calls = 2
    /\ ws[1].reply = Reply(FALSE, ErrorValue("fail"), 3, Usage)

\* The run has invoked no provider yet and cancellation is signaled.
CancelledEarly ==
    /\ cancel_token /\ step = 0 /\ primary_calls = 0 /\ tool_calls_made = 0
    /\ AskTokens <= max_tokens /\ max_steps >= 1

\* C26 as claimed: an attempt that begins with cancellation signaled returns
\* the cancelled reply without invoking op; and a run whose token is
\* cancelled before its first attempt (initial ask fitting, max_steps >= 1)
\* goes from its start to the first wrapper and from there to returning the
\* cancelled reply, invoking no provider on the way.
C26_CancelledBeforeAttempt ==
    [][/\ \A i \in 1..Len(ws) :
            (InWrapper /\ ws[i].pc = "top" /\ LoopCond(ws[i].attempt) /\ cancel_token
                /\ pc' = pc /\ ws'[i] # ws[i])
               => /\ pc' = pc
                  /\ ws'[i].pc = "ret" /\ ws'[i].reply = CancelledReply
                  /\ ws'[i].calls = ws[i].calls
                  /\ primary_calls' = primary_calls
                  /\ tool_calls_made' = tool_calls_made
       /\ (CancelledEarly /\ pc = "start") => pc' = "loop" /\ step' = 0
       /\ (CancelledEarly /\ pc = "loop") => pc' = "primary" /\ ws' = <<NewWrapper>>
       /\ (CancelledEarly /\ pc = "primary" /\ ws[1].pc = "top")
             => /\ pc' = "primary"
                /\ ws'[1].pc = "ret" /\ ws'[1].reply = CancelledReply
                /\ primary_calls' = 0
       /\ (CancelledEarly /\ pc = "primary" /\ ws[1].pc = "ret")
             => pc' = "done" /\ result' = CancelledReply /\ primary_calls' = 0]_vars

\* C27: when the initial ask's input and context estimate to more than
\* max_tokens, run returns {ok: false, output: {error: "token budget
\* exceeded"}, latency_ms: 0, cost: {}} from its prelude: no wrapper is
\* entered, no provider invoked and nothing debited, whatever max_steps,
\* max_retries and the cancellation state are.
C27_InitialAskOverBudget ==
    AskTokens > max_tokens
        => /\ pc \in {"start", "done"}
           /\ primary_wrapped = 0 /\ primary_calls = 0 /\ tool_calls_made = 0
           /\ ws = <<>>
           /\ remaining = max_tokens /\ debited = 0
           /\ pc = "done"
                 => result = Reply(FALSE, ErrorValue("token budget exceeded"), 0, EmptyObj)
C27_Witness ==
    /\ AskTokens > max_tokens /\ max_tokens > 0
    /\ pc = "done" /\ cancel_token /\ max_steps = 0 /\ max_retries = 0
    /\ result = BudgetReply(0, EmptyObj)

\* estimate(input) + estimate(context) of an Ask.
Tokens(a) == estimate_tokens(a.input) + estimate_tokens(a.context)
\* The tokens debited in this step.
Paid == debited' - debited
\* The token estimates of the first k inputs.
RECURSIVE InputTokens(_, _)
InputTokens(ins, k) ==
    IF k = 0 THEN 0 ELSE InputTokens(ins, k - 1) + estimate_tokens(ins[k])
\* The order of debits and calls after the prelude: the step that builds the
\* next Ask debits the outputs of the replies just received and then the next
\* Ask's input and context; the step that dispatches tool calls debits the
\* primary's output and then every entry's input, in order, with no tool
\* invoked yet; nothing is debited while a call is out.
DebitsAfterPrelude ==
    /\ (InWrapper /\ pc' = "loop")
          => /\ AllReturned
             /\ Paid = OutputTokens(Len(ws)) + Tokens(current')
    /\ (Dispatching /\ pc' \in {"tool", "fanout"})
          => /\ Paid = estimate_tokens(ws[1].reply.output)
                          + InputTokens(inputs', Len(inputs'))
             /\ remaining' = remaining - Paid
             /\ \A i \in 1..Len(ws') : ws'[i] = NewWrapper
             /\ tool_calls_made' = 0
    /\ (Dispatching /\ pc' = "done" /\ result' = BudgetReply(0, EmptyObj)
           /\ \A k \in 1..Len(ToolCallsOf(ws[1].reply)) :
                 has_tool(OpOf(ToolCallsOf(ws[1].reply)[k])))
          => \E j \in 1..Len(ToolCallsOf(ws[1].reply)) :
                LET ins == [k \in 1..Len(ToolCallsOf(ws[1].reply)) |->
                               Get(ToolCallsOf(ws[1].reply)[k], "input")]
                    rem == remaining - estimate_tokens(ws[1].reply.output)
                IN /\ InputTokens(ins, j) > rem
                   /\ InputTokens(ins, j - 1) <= rem
                   /\ Paid = estimate_tokens(ws[1].reply.output) + InputTokens(ins, j - 1)
    /\ (InWrapper /\ ~AllReturned) => Paid = 0 /\ remaining' = remaining
    /\ (pc = "primary" /\ pc' = "primary") => current' = current
    /\ (pc \in {"tool", "fanout"} /\ pc' = pc) => inputs' = inputs
\* Each provider is invoked with the Ask, or the input, that was debited.
InvokedWithDebited ==
    /\ (pc = "primary" /\ ws[1].calls >= 1) => ws[1].asked = current
    /\ pc \in {"tool", "fanout"}
          => \A i \in 1..Len(ws) : ws[i].calls >= 1 => ws[i].asked.input = inputs[i]

\* C28 as claimed: for every invocation of the primary the input and context
\* of the Ask it receives were debited before; for every tool invocation its
\* entry's input was debited before, in the parallel path all N inputs, in
\* order, before any tool is invoked; outputs are debited after the call
\* returned.
C28_Original ==
    /\ [][/\ (pc = "start" /\ pc' = "loop") => Paid = Tokens(current')
          /\ DebitsAfterPrelude]_vars
    /\ []InvokedWithDebited
\* C28 as amended: the same from step 1 on; before step 0 the input and the
\* context of the caller's ask are debited, and the primary then receives
\* that input with the context {reasoning: mode}, which is not debited.
C28_InputsDebitedFirst ==
    /\ [][/\ (pc = "start" /\ pc' = "loop")
             => /\ Paid = Tokens(ask)
                /\ current' = [ask EXCEPT !.context = ReasoningContext(mode')]
          /\ DebitsAfterPrelude]_vars
    /\ []InvokedWithDebited
C28_Witness ==
    /\ pc = "fanout" /\ Len(ws) = 2 /\ ws[1].calls = 1 /\ ws[2].calls = 1
    /\ step = 1
    /\ debited = max_tokens - remaining
    /\ InputTokens(inputs, 2) = 2

\* C29: in the parallel path, when cancellation is signaled by the time all N
\* replies are in, run returns the cancelled reply whatever the tool replies
\* are, debits no tool output and does not invoke the primary again.
C29_FanoutCancelled ==
    [][(pc = "fanout" /\ AllReturned /\ cancel_token)
          => /\ pc' = "done"
             /\ result' = Reply(FALSE, ErrorValue("cancelled"), 0, EmptyObj)
             /\ Paid = 0 /\ remaining' = remaining
             /\ charges' = charges
             /\ current' = current /\ step' = step
             /\ primary_calls' = primary_calls]_vars
\* Cancelled after both tools had answered ok.
C29_Witness ==
    /\ pc = "done" /\ cancel_token /\ Len(ws) = 2 /\ result = CancelledReply
    /\ ws[1].calls >= 1 /\ ws[2].calls >= 1
    /\ ws[1].reply.ok /\ ws[2].reply.ok
    /\ calls_after_cancel = 0

\* The Ask that follows a failed primary reply without tool calls.
AfterFailureAsk ==
    [op |-> ask.op,
     input |-> ws[1].reply.output,
     context |-> JObj(<< <<"reasoning", JStr(as_str(mode))>>,
                         <<"retry", JNum(step + 1)>> >>)]
AfterFailureTokens == estimate_tokens(ws[1].reply.output) + Tokens(AfterFailureAsk)

\* C30: when the primary's reply at loop index step is not ok and carries no
\* tool calls, its output and the next Ask fit the budget and cancellation is
\* not signaled, the next Ask keeps the op, has the reply's output as input
\* and {reasoning: mode, retry: step + 1} as context; its tokens are debited
\* in that step, before the next one; it is the Ask the primary is next
\* invoked with; and step counts every iteration, tool-call steps included.
C30_FailureFolded ==
    /\ [][/\ (Returning /\ Uncancelled /\ ~ws[1].reply.ok
                /\ ToolCallsOf(ws[1].reply) = <<>>
                /\ AfterFailureTokens <= remaining)
             => /\ pc' = "loop"
                /\ current' = AfterFailureAsk
                /\ current'.op = current.op
                /\ step' = step + 1
                /\ Paid = AfterFailureTokens
                /\ remaining' = remaining - AfterFailureTokens
          /\ step' # step => step' = step + 1 /\ pc' = "loop" /\ InWrapper]_vars
    /\ []((pc = "primary" /\ ws[1].calls >= 1 /\ HasKey(current.context, "retry"))
             => /\ ws[1].asked = current
                /\ Get(current.context, "retry") = JNum(step)
                /\ current.op = ask.op)
\* A failure at step 1, after a tool call at step 0, is folded with retry: 2.
C30_Witness ==
    /\ pc = "loop" /\ step = 2 /\ ~cancel_token
    /\ <<0, 1>> \in DOMAIN charges
    /\ current = [op |-> ask.op, input |-> ErrorValue("fail"),
                  context |-> JObj(<< <<"reasoning", JStr(as_str(mode))>>,
                                      <<"retry", JNum(2)>> >>)]

\* ------------------------------------------------ claims on the RPC client
\* The ids of the requests posted, and the ids drawn and not yet posted.
SentIds == { sent[i].id : i \in 1..Len(sent) }
HeldIds == { threads[t].id : t \in { u \in Threads : threads[u].id # 0 } }

\* C31: the requests of one client carry pairwise distinct ids; the ids drawn
\* so far are FirstId, FirstId + 1, ... without gap, each drawn once, the
\* first by the handshake of the construction; each draw hands out the
\* counter's value and advances it by one, also when several threads draw.
C31_IdsDistinct ==
    [][/\ \A i, j \in 1..Len(sent') : i # j => sent'[i].id # sent'[j].id
       /\ \A t, u \in Threads :
             (t # u /\ threads'[t].id # 0) => threads'[t].id # threads'[u].id
       /\ SentIds' \cap HeldIds' = {}
       /\ SentIds' \cup HeldIds' = FirstId..(next_id' - 1)
       /\ Len(sent') >= 1 => sent'[1] = Request(1, "handshake", "")
       /\ \A i \in 2..Len(sent') : sent'[i].method # "handshake"
       /\ next_id' \in {next_id, next_id + 1}
       /\ \A t \in Threads :
             (threads[t].id = 0 /\ threads'[t].id # 0)
                => threads'[t].id = next_id /\ next_id' = next_id + 1
      ]_vars
\* Two threads drew their invoke ids in one order and posted in the other.
C31_Witness ==
    /\ Len(sent) >= 4
    /\ \E i, j \in 1..Len(sent) : i < j /\ sent[i].id > sent[j].id
    /\ \A t \in Threads : threads[t].pc = "idle" /\ threads[t].invokes = 1

\* ----------------------------------------------- last claims on the run
\* A wrapper call left its loop without returning.
LeftLoop == pc = "panicked" /\ ws # <<>>

\* C32: for every max_retries the constructors accept, every call of the
\* retry wrapper returns from inside its loop: the statement after the loop
\* is never reached.
C32_LoopAlwaysReturns == ~LeftLoop

\* run panicked in its prelude: ask_tokens * 100 / 0 was evaluated.
DividedByZero == pc = "panicked" /\ ws = <<>>

\* C33: the division of the budget override is never evaluated with
\* max_tokens = 0: the estimates of the ask's input and of its context are
\* at least 1 each, so the ask costs at least 2 tokens, and a run with
\* max_tokens = 0 returns "token budget exceeded" from the prelude.
C33_NoDivisionByZero ==
    /\ estimate_tokens(ask.input) >= 1 /\ estimate_tokens(ask.context) >= 1
    /\ AskTokens >= 2
    /\ ~DividedByZero
    /\ max_tokens = 0
          => /\ pc \in {"start", "done"}
             /\ pc = "done" => result = BudgetReply(0, EmptyObj)
    /\ (pc = "loop" /\ step = 0) => max_tokens > 0 /\ remaining = max_tokens - AskTokens
C33_Witness ==
    /\ max_tokens = 0 /\ AskTokens = 2 /\ pc = "done"
    /\ result = Reply(FALSE, ErrorValue("token budget exceeded"), 0, EmptyObj)

\* The primary's reply is not ok and its tool_calls is an empty array.
EmptyToolCalls ==
    /\ Returning /\ Uncancelled /\ ~ws[1].reply.ok
    /\ Get(ws[1].reply.output, "tool_calls") = JArr(<<>>)
    /\ estimate_tokens(ws[1].reply.output) <= remaining

\* C34: a primary reply that is not ok and whose tool_calls is an empty array
\* dispatches no tool and is handled as a failure without tool calls: its
\* output becomes the next Ask's input, with context {reasoning: mode,
\* retry: step + 1}, and the loop goes on; the run ends at this point only as
\* it does for any failure, when that next Ask does not fit the budget.
C34_EmptyToolCallsFolded ==
    [][EmptyToolCalls
          => /\ pc' \notin {"tool", "fanout"}
             /\ tool_calls_made' = 0 /\ names' = <<>> /\ inputs' = <<>>
             /\ IF AfterFailureTokens <= remaining
                THEN /\ pc' = "loop"
                     /\ step' = step + 1
                     /\ current' = [op |-> ask.op,
                                    input |-> JObj(<< <<"tool_calls", JArr(<<>>)>> >>),
                                    context |-> RetryContext(mode, step + 1)]
                ELSE /\ pc' = "done"
                     /\ result' = BudgetReply(0, EmptyObj)]_vars
C34_Witness ==
    /\ pc = "primary" /\ step = 1 /\ ~cancel_token /\ ws[1].calls >= 1
    /\ ws[1].asked.input = JObj(<< <<"tool_calls", JArr(<<>>)>> >>)
    /\ Get(ws[1].asked.context, "retry") = JNum(1)

\* The futures whose provider call is executing.
Executing == { i \in 1..Len(ws) : ws[i].pc = "call" }

\* C35: at most one provider call, primary or tool, is executing at any
\* moment of a run, whatever the size of the fan-out; while a call is
\* executing no other future of the step moves, so only backoff waits
\* overlap with an invocation.
C35_OneCallAtATime ==
    /\ [](Cardinality(Executing) <= 1)
    /\ [][\A i \in Executing : \A j \in 1..Len(ws) :
             (j # i /\ pc' = pc) => ws'[j] = ws[j]]_vars
\* In a fan-out of three the second tool is being invoked while the first
\* waits in its backoff and the third has not started.
C35_Witness ==
    /\ pc = "fanout" /\ Len(ws) = 3
    /\ ws[1].pc = "backoff" /\ ws[2].pc = "call" /\ ws[3].pc = "top"

\* C36: every reply with ok = true that run returns is a reply the primary
\* provider produced (its first ok reply, which ends the run); a tool's reply
\* is never the result of the run, whenever cancellation is signaled.
C36_OkResultsArePrimary ==
    (pc = "done" /\ result.ok) => first_ok.n >= 1 /\ result = first_ok.reply
====
